---------------------------- MODULE Spec2Model ----------------------------
(***************************************************************************)
(* A model of the Flink operator's Observer (flinkcluster_observer.go) and *)
(* Converter (flinkcluster_converter.go).                                  *)
(*                                                                         *)
(* Conventions.                                                            *)
(*   - A Go pointer is a sequence of length at most one: <<>> is nil and   *)
(*     <<v>> points to v; p[1] dereferences it.                            *)
(*   - A Go string that the code builds or inspects (names, arguments,     *)
(*     the jar reference, property keys and values, URLs) is the sequence  *)
(*     of its characters, so that concatenation, Contains and Split are    *)
(*     computed as the code computes them.  Strings that the code only     *)
(*     passes around or compares with a constant (enum values, container   *)
(*     and port names, environment variable names) are TLA+ strings.       *)
(*   - A Go map with string keys is a TLA+ function; the order in which    *)
(*     "range" visits it is unspecified and is an explicit parameter.      *)
(***************************************************************************)
EXTENDS Integers, Sequences, FiniteSets, TLC

(***************************************************************************)
(* Bounds of the model.                                                    *)
(***************************************************************************)
MaxJarLen == 5
MaxProps == 2
MaxPods == 2

(***************************************************************************)
(* Go library functions the code calls.                                    *)
(***************************************************************************)

\* strings.Contains(s, substr)
Contains(s, substr) ==
    \E i \in 1..(Len(s) - Len(substr) + 1) :
        SubSeq(s, i, i + Len(substr) - 1) = substr

\* strings.Index(s, sep), 1-based; 0 when sep does not occur in s.
Index(s, sep) ==
    IF Contains(s, sep)
    THEN CHOOSE i \in 1..(Len(s) - Len(sep) + 1) :
            /\ SubSeq(s, i, i + Len(sep) - 1) = sep
            /\ \A j \in 1..(i - 1) : SubSeq(s, j, j + Len(sep) - 1) # sep
    ELSE 0

\* strings.Split(s, sep) for a non-empty sep: the substrings between the
\* occurrences of sep; <<s>> when sep does not occur.
RECURSIVE Split(_, _)
Split(s, sep) ==
    LET i == Index(s, sep) IN
    IF i = 0
    THEN <<s>>
    ELSE <<SubSeq(s, 1, i - 1)>> \o Split(SubSeq(s, i + Len(sep), Len(s)), sep)

\* The decimal digits of a natural number.
RECURSIVE Digits(_)
Digits(n) ==
    LET d == <<"0", "1", "2", "3", "4", "5", "6", "7", "8", "9">>[(n % 10) + 1] IN
    IF n < 10 THEN <<d>> ELSE Digits(n \div 10) \o <<d>>

\* fmt's %d of an int32 (also fmt.Sprint of one).
Itoa(n) == IF n < 0 THEN <<"-">> \o Digits(-n) ELSE Digits(n)

\* Every sequence that enumerates the set S once: the orders in which a Go
\* "range" may visit a map with key set S.
Orders(S) ==
    {o \in [1..Cardinality(S) -> S] : \A i, j \in DOMAIN o : i # j => o[i] # o[j]}

(***************************************************************************)
(* API enumerations (api/v1alpha1).                                        *)
(***************************************************************************)
ClusterState ==
    [Creating |-> "Creating", Running |-> "Running", Updating |-> "Updating",
     Stopping |-> "Stopping", Stopped |-> "Stopped", Failed |-> "Failed"]

AccessScope == [Cluster |-> "Cluster", VPC |-> "VPC", External |-> "External"]

(***************************************************************************)
(* Converter: flinkcluster_converter.go                                    *)
(***************************************************************************)

getJobManagerDeploymentName(clusterName) ==
    clusterName \o <<"-", "j", "o", "b", "m", "a", "n", "a", "g", "e", "r">>

getJobManagerServiceName(clusterName) ==
    clusterName \o <<"-", "j", "o", "b", "m", "a", "n", "a", "g", "e", "r">>

getTaskManagerDeploymentName(clusterName) ==
    clusterName \o <<"-", "t", "a", "s", "k", "m", "a", "n", "a", "g", "e", "r">>

getJobName(clusterName) == clusterName \o <<"-", "j", "o", "b">>

toOwnerReference(flinkCluster) ==
    [APIVersion |-> flinkCluster.APIVersion,
     Kind |-> flinkCluster.Kind,
     Name |-> flinkCluster.Name,
     UID |-> flinkCluster.UID,
     Controller |-> <<TRUE>>,
     BlockOwnerDeletion |-> <<FALSE>>]

\* The builder's content after visiting the keys of properties in the given
\* order, writing "key: value\n" for each.
RECURSIVE WriteProperties(_, _)
WriteProperties(properties, order) ==
    IF order = <<>>
    THEN <<>>
    ELSE Head(order) \o <<":", " ">> \o properties[Head(order)] \o <<"\n">>
            \o WriteProperties(properties, Tail(order))

\* order: the order in which range visits the map in this call.
getFlinkProperties(properties, order) == WriteProperties(properties, order)

\* The phase check that opens the three manager/worker functions.
\* orderJm: the order in which this call's range visits FlinkProperties.
getDesiredJobManagerDeployment(flinkCluster, orderJm) ==
    IF \/ flinkCluster.Status.State = ClusterState.Stopping
       \/ flinkCluster.Status.State = ClusterState.Stopped
    THEN <<>>
    ELSE
    LET clusterNamespace == flinkCluster.Namespace
        clusterName == flinkCluster.Name
        imageSpec == flinkCluster.Spec.ImageSpec
        jobManagerSpec == flinkCluster.Spec.JobManagerSpec
        rpcPort == [Name |-> "rpc", ContainerPort |-> jobManagerSpec.Ports.RPC[1]]
        blobPort == [Name |-> "blob", ContainerPort |-> jobManagerSpec.Ports.Blob[1]]
        queryPort == [Name |-> "query", ContainerPort |-> jobManagerSpec.Ports.Query[1]]
        uiPort == [Name |-> "ui", ContainerPort |-> jobManagerSpec.Ports.UI[1]]
        jobManagerDeploymentName == getJobManagerDeploymentName(clusterName)
        labels == [cluster |-> clusterName,
                   app |-> <<"f", "l", "i", "n", "k">>,
                   component |-> <<"j", "o", "b", "m", "a", "n", "a", "g", "e", "r">>]
        envVars ==
            << [Name |-> "JOB_MANAGER_RPC_ADDRESS",
                Value |-> jobManagerDeploymentName,
                ValueFrom |-> <<>>],
               [Name |-> "JOB_MANAGER_CPU_LIMIT",
                Value |-> <<>>,
                ValueFrom |-> <<[ContainerName |-> "jobmanager",
                                 Resource |-> "limits.cpu",
                                 Divisor |-> "1m"]>>],
               [Name |-> "JOB_MANAGER_MEMORY_LIMIT",
                Value |-> <<>>,
                ValueFrom |-> <<[ContainerName |-> "jobmanager",
                                 Resource |-> "limits.memory",
                                 Divisor |-> "1Mi"]>>],
               [Name |-> "FLINK_PROPERTIES",
                Value |-> getFlinkProperties(flinkCluster.Spec.FlinkProperties, orderJm),
                ValueFrom |-> <<>>] >>
            \o flinkCluster.Spec.EnvVars
    IN  << [ObjectMeta |->
                [Namespace |-> clusterNamespace,
                 Name |-> jobManagerDeploymentName,
                 OwnerReferences |-> <<toOwnerReference(flinkCluster)>>,
                 Labels |-> labels],
            Spec |->
                [Replicas |-> jobManagerSpec.Replicas,
                 Selector |-> [MatchLabels |-> labels],
                 Template |->
                    [ObjectMeta |-> [Labels |-> labels],
                     Spec |->
                        [Containers |->
                            << [Name |-> "jobmanager",
                                Image |-> imageSpec.Name,
                                ImagePullPolicy |-> imageSpec.PullPolicy,
                                Args |-> << <<"j", "o", "b", "m", "a", "n", "a", "g", "e", "r">> >>,
                                Ports |-> <<rpcPort, blobPort, queryPort, uiPort>>,
                                Resources |-> jobManagerSpec.Resources,
                                Env |-> envVars,
                                VolumeMounts |-> jobManagerSpec.Mounts] >>,
                         Volumes |-> jobManagerSpec.Volumes,
                         NodeSelector |-> jobManagerSpec.NodeSelector,
                         ImagePullSecrets |-> imageSpec.PullSecrets]]]] >>

\* The result is [panic, ret]: panic is TRUE when the call panics (the
\* default branch of the switch) and then there is no return value.
\* A faulty variant of exposeJobManagerService: the VPC scope is exposed
\* like the External scope, without the annotation.
exposeJobManagerServicePublicly(jobManagerService, accessScope) ==
    CASE accessScope = AccessScope.Cluster ->
            [panic |-> FALSE,
             ret |-> <<[jobManagerService EXCEPT !.Spec.Type = "ClusterIP"]>>]
      [] accessScope \in {AccessScope.VPC, AccessScope.External} ->
            [panic |-> FALSE,
             ret |-> <<[jobManagerService EXCEPT !.Spec.Type = "LoadBalancer"]>>]
      [] OTHER ->
            [panic |-> TRUE, ret |-> <<>>]

\* The switch on the access scope that ends getDesiredJobManagerService.
\* The result is [panic, ret]: the default branch panics.
exposeJobManagerService(jobManagerService, accessScope) ==
    CASE accessScope = AccessScope.Cluster ->
            [panic |-> FALSE,
             ret |-> <<[jobManagerService EXCEPT !.Spec.Type = "ClusterIP"]>>]
      [] accessScope = AccessScope.VPC ->
            [panic |-> FALSE,
             ret |-> <<[jobManagerService EXCEPT
                          !.Spec.Type = "LoadBalancer",
                          !.ObjectMeta.Annotations =
                              ("cloud.google.com/load-balancer-type" :> "Internal")]>>]
      [] accessScope = AccessScope.External ->
            [panic |-> FALSE,
             ret |-> <<[jobManagerService EXCEPT !.Spec.Type = "LoadBalancer"]>>]
      [] OTHER ->
            [panic |-> TRUE, ret |-> <<>>]

getDesiredJobManagerService(flinkCluster) ==
    IF \/ flinkCluster.Status.State = ClusterState.Stopping
       \/ flinkCluster.Status.State = ClusterState.Stopped
    THEN [panic |-> FALSE, ret |-> <<>>]
    ELSE
    LET clusterNamespace == flinkCluster.Namespace
        clusterName == flinkCluster.Name
        jobManagerSpec == flinkCluster.Spec.JobManagerSpec
        rpcPort == [Name |-> "rpc", Port |-> jobManagerSpec.Ports.RPC[1],
                    TargetPort |-> "rpc"]
        blobPort == [Name |-> "blob", Port |-> jobManagerSpec.Ports.Blob[1],
                     TargetPort |-> "blob"]
        queryPort == [Name |-> "query", Port |-> jobManagerSpec.Ports.Query[1],
                      TargetPort |-> "query"]
        uiPort == [Name |-> "ui", Port |-> jobManagerSpec.Ports.UI[1],
                   TargetPort |-> "ui"]
        jobManagerServiceName == getJobManagerServiceName(clusterName)
        labels == [cluster |-> clusterName,
                   app |-> <<"f", "l", "i", "n", "k">>,
                   component |-> <<"j", "o", "b", "m", "a", "n", "a", "g", "e", "r">>]
        jobManagerService ==
            [ObjectMeta |->
                [Namespace |-> clusterNamespace,
                 Name |-> jobManagerServiceName,
                 OwnerReferences |-> <<toOwnerReference(flinkCluster)>>,
                 Labels |-> labels,
                 Annotations |-> <<>>],
             Spec |->
                [Selector |-> labels,
                 Ports |-> <<rpcPort, blobPort, queryPort, uiPort>>,
                 Type |-> ""]]
    IN  exposeJobManagerService(jobManagerService, jobManagerSpec.AccessScope)

\* orderTm: the order in which this call's range visits FlinkProperties.
getDesiredTaskManagerDeployment(flinkCluster, orderTm) ==
    IF \/ flinkCluster.Status.State = ClusterState.Stopping
       \/ flinkCluster.Status.State = ClusterState.Stopped
    THEN <<>>
    ELSE
    LET clusterNamespace == flinkCluster.Namespace
        clusterName == flinkCluster.Name
        imageSpec == flinkCluster.Spec.ImageSpec
        taskManagerSpec == flinkCluster.Spec.TaskManagerSpec
        dataPort == [Name |-> "data", ContainerPort |-> taskManagerSpec.Ports.Data[1]]
        rpcPort == [Name |-> "rpc", ContainerPort |-> taskManagerSpec.Ports.RPC[1]]
        queryPort == [Name |-> "query", ContainerPort |-> taskManagerSpec.Ports.Query[1]]
        taskManagerDeploymentName == getTaskManagerDeploymentName(clusterName)
        jobManagerDeploymentName == getJobManagerDeploymentName(clusterName)
        labels == [cluster |-> clusterName,
                   app |-> <<"f", "l", "i", "n", "k">>,
                   component |-> <<"t", "a", "s", "k", "m", "a", "n", "a", "g", "e", "r">>]
        envVars ==
            << [Name |-> "JOB_MANAGER_RPC_ADDRESS",
                Value |-> jobManagerDeploymentName,
                ValueFrom |-> <<>>],
               [Name |-> "TASK_MANAGER_CPU_LIMIT",
                Value |-> <<>>,
                ValueFrom |-> <<[ContainerName |-> "taskmanager",
                                 Resource |-> "limits.cpu",
                                 Divisor |-> "1m"]>>],
               [Name |-> "TASK_MANAGER_MEMORY_LIMIT",
                Value |-> <<>>,
                ValueFrom |-> <<[ContainerName |-> "taskmanager",
                                 Resource |-> "limits.memory",
                                 Divisor |-> "1Mi"]>>],
               [Name |-> "FLINK_PROPERTIES",
                Value |-> getFlinkProperties(flinkCluster.Spec.FlinkProperties, orderTm),
                ValueFrom |-> <<>>] >>
            \o flinkCluster.Spec.EnvVars
        containers ==
            << [Name |-> "taskmanager",
                Image |-> imageSpec.Name,
                ImagePullPolicy |-> imageSpec.PullPolicy,
                Args |-> << <<"t", "a", "s", "k", "m", "a", "n", "a", "g", "e", "r">> >>,
                Ports |-> <<dataPort, rpcPort, queryPort>>,
                Resources |-> taskManagerSpec.Resources,
                Env |-> envVars,
                VolumeMounts |-> taskManagerSpec.Mounts] >>
            \o taskManagerSpec.Sidecars
    IN  << [ObjectMeta |->
                [Namespace |-> clusterNamespace,
                 Name |-> taskManagerDeploymentName,
                 OwnerReferences |-> <<toOwnerReference(flinkCluster)>>,
                 Labels |-> labels],
            Spec |->
                [Replicas |-> <<taskManagerSpec.Replicas>>,
                 Selector |-> [MatchLabels |-> labels],
                 Template |->
                    [ObjectMeta |-> [Labels |-> labels],
                     Spec |->
                        [Containers |-> containers,
                         Volumes |-> taskManagerSpec.Volumes,
                         NodeSelector |-> taskManagerSpec.NodeSelector,
                         ImagePullSecrets |-> imageSpec.PullSecrets]]]] >>

\* A faulty variant of jarPath: the path keeps the first segment of the
\* reference instead of the last.
jarPathFirstSegment(JarFile) ==
    IF Contains(JarFile, <<":", "/", "/">>)
    THEN LET parts == Split(JarFile, <<"/">>) IN
         <<"/", "o", "p", "t", "/", "f", "l", "i", "n", "k", "/", "j", "o", "b", "/">>
            \o parts[1]
    ELSE JarFile

\* The local variable jarPath of getDesiredJob: the jar argument of the job.
jarPath(JarFile) ==
    IF Contains(JarFile, <<":", "/", "/">>)
    THEN LET parts == Split(JarFile, <<"/">>) IN
         <<"/", "o", "p", "t", "/", "f", "l", "i", "n", "k", "/", "j", "o", "b", "/">>
            \o parts[Len(parts)]
    ELSE JarFile

\* The local variable envVars of getDesiredJob once the jar is looked at.
jarEnvVars(envVars, JarFile) ==
    IF Contains(JarFile, <<":", "/", "/">>)
    THEN envVars \o << [Name |-> "FLINK_JOB_JAR_URI",
                        Value |-> JarFile,
                        ValueFrom |-> <<>>] >>
    ELSE envVars

\* A faulty variant of requested: a flag that is set counts as requested,
\* whatever its value.
requestedWhenSet(flag) == flag # <<>>

\* The test of a *bool option of the JobSpec in getDesiredJob: the pointer
\* is not nil and the value is true.
requested(flag) == flag # <<>> /\ flag[1] = TRUE

getDesiredJob(flinkCluster) ==
    LET jobSpecPtr == flinkCluster.Spec.JobSpec IN
    IF jobSpecPtr = <<>>
    THEN <<>>
    ELSE
    LET jobSpec == jobSpecPtr[1]
        imageSpec == flinkCluster.Spec.ImageSpec
        jobManagerSpec == flinkCluster.Spec.JobManagerSpec
        clusterNamespace == flinkCluster.Namespace
        clusterName == flinkCluster.Name
        jobName == getJobName(clusterName)
        jobManagerServiceName ==
            clusterName \o <<"-", "j", "o", "b", "m", "a", "n", "a", "g", "e", "r">>
        jobManagerAddress ==
            jobManagerServiceName \o <<":">> \o Itoa(jobManagerSpec.Ports.UI[1])
        labels == [cluster |-> clusterName,
                   app |-> <<"f", "l", "i", "n", "k">>]
        jobArgs0 == << <<".", "/", "b", "i", "n", "/", "f", "l", "i", "n", "k">>,
                       <<"r", "u", "n">> >>
        jobArgs1 == jobArgs0 \o
            << <<"-", "-", "j", "o", "b", "m", "a", "n", "a", "g", "e", "r">>,
               jobManagerAddress >>
        jobArgs2 ==
            IF jobSpec.ClassName # <<>>
            THEN jobArgs1 \o << <<"-", "-", "c", "l", "a", "s", "s">>,
                                jobSpec.ClassName[1] >>
            ELSE jobArgs1
        jobArgs3 ==
            IF jobSpec.Savepoint # <<>>
            THEN jobArgs2 \o
                    << <<"-", "-", "f", "r", "o", "m", "S", "a", "v", "e", "p", "o", "i", "n", "t">>,
                       jobSpec.Savepoint[1] >>
            ELSE jobArgs2
        jobArgs4 ==
            IF requested(jobSpec.AllowNonRestoredState)
            THEN jobArgs3 \o
                    << <<"-", "-", "a", "l", "l", "o", "w", "N", "o", "n", "R", "e", "s",
                         "t", "o", "r", "e", "d", "S", "t", "a", "t", "e">> >>
            ELSE jobArgs3
        jobArgs5 ==
            IF jobSpec.Parallelism # <<>>
            THEN jobArgs4 \o
                    << <<"-", "-", "p", "a", "r", "a", "l", "l", "e", "l", "i", "s", "m">>,
                       Itoa(jobSpec.Parallelism[1]) >>
            ELSE jobArgs4
        jobArgs6 ==
            IF requested(jobSpec.NoLoggingToStdout)
            THEN jobArgs5 \o
                    << <<"-", "-", "s", "y", "s", "o", "u", "t", "L", "o", "g", "g", "i", "n", "g">> >>
            ELSE jobArgs5
        envVars0 == <<>> \o flinkCluster.Spec.EnvVars
        envVars == jarEnvVars(envVars0, jobSpec.JarFile)
        jobArgs == (jobArgs6 \o <<jarPath(jobSpec.JarFile)>>) \o jobSpec.Args
    IN  << [ObjectMeta |->
                [Namespace |-> clusterNamespace,
                 Name |-> jobName,
                 OwnerReferences |-> <<toOwnerReference(flinkCluster)>>,
                 Labels |-> labels],
            Spec |->
                [Template |->
                    [ObjectMeta |-> [Labels |-> labels],
                     Spec |->
                        [Containers |->
                            << [Name |-> "main",
                                Image |-> imageSpec.Name,
                                ImagePullPolicy |-> imageSpec.PullPolicy,
                                Args |-> jobArgs,
                                Env |-> envVars,
                                VolumeMounts |-> jobSpec.Mounts] >>,
                         RestartPolicy |-> jobSpec.RestartPolicy[1],
                         Volumes |-> jobSpec.Volumes,
                         ImagePullSecrets |-> imageSpec.PullSecrets]]]] >>

\* The zero value of _DesiredClusterState.
NoDesiredState ==
    [JmDeployment |-> <<>>, JmService |-> <<>>, TmDeployment |-> <<>>, Job |-> <<>>]

\* cluster is a pointer.  The result is [panic, ret]: the fields of the
\* composite literal are evaluated in order, so a panic in
\* getDesiredJobManagerService ends the call with no return value.
getDesiredClusterState(cluster, orderJm, orderTm) ==
    IF cluster = <<>>
    THEN [panic |-> FALSE, ret |-> NoDesiredState]
    ELSE
    LET JmDeployment == getDesiredJobManagerDeployment(cluster[1], orderJm)
        JmService == getDesiredJobManagerService(cluster[1])
        TmDeployment == getDesiredTaskManagerDeployment(cluster[1], orderTm)
        Job == getDesiredJob(cluster[1])
    IN  IF JmService.panic
        THEN [panic |-> TRUE, ret |-> NoDesiredState]
        ELSE [panic |-> FALSE,
              ret |-> [JmDeployment |-> JmDeployment,
                       JmService |-> JmService.ret,
                       TmDeployment |-> TmDeployment,
                       Job |-> Job]]

(***************************************************************************)
(* Remote State Gateway (k8sClient) as the Observer uses it.               *)
(*                                                                         *)
(* A client value is [cluster, objects, pods, fault]: the FlinkCluster     *)
(* resource (a pointer), the set of live deployments, services and jobs    *)
(* (each [Kind, Namespace, Name]), the list of pods that carry the job's   *)
(* labels, and the failure, if any, that the API server answers with in    *)
(* this pass: [Kind, Name] names the request that fails with an error      *)
(* other than NotFound ("ServerError"), or that a list answers NotFound.   *)
(***************************************************************************)
NoError == "nil"

NoFault == [Kind |-> "", Name |-> <<>>, err |-> NoError]

\* A faulty variant of IgnoreNotFound: every error is ignored.
IgnoreEveryError(err) == NoError

\* client.IgnoreNotFound(err)
IgnoreNotFound(err) == IF err = "NotFound" THEN NoError ELSE err

\* k8sClient.Get of the FlinkCluster named by the request.
GetCluster(k8sClient, request) ==
    IF k8sClient.fault.Kind = "FlinkCluster"
    THEN [err |-> k8sClient.fault.err, obj |-> <<>>]
    ELSE IF \/ k8sClient.cluster = <<>>
            \/ k8sClient.cluster[1].Namespace # request.Namespace
            \/ k8sClient.cluster[1].Name # request.Name
    THEN [err |-> "NotFound", obj |-> <<>>]
    ELSE [err |-> NoError, obj |-> k8sClient.cluster]

\* k8sClient.Get of a deployment, service or job by namespace and name.
Get(k8sClient, kind, namespace, name) ==
    LET key == [Kind |-> kind, Namespace |-> namespace, Name |-> name] IN
    IF k8sClient.fault.Kind = kind /\ k8sClient.fault.Name = name
    THEN [err |-> k8sClient.fault.err, obj |-> <<>>]
    ELSE IF key \notin k8sClient.objects
    THEN [err |-> "NotFound", obj |-> <<>>]
    ELSE [err |-> NoError, obj |-> <<key>>]

\* k8sClient.List of the pods matching the job's labels.
List(k8sClient, namespace, matchingLabels) ==
    IF k8sClient.fault.Kind = "PodList"
    THEN [err |-> k8sClient.fault.err, Items |-> <<>>]
    ELSE [err |-> NoError, Items |-> k8sClient.pods]

(***************************************************************************)
(* Observer: flinkcluster_observer.go                                      *)
(*                                                                         *)
(* An observer is [k8sClient, request, http]; http is the outcome of the   *)
(* HTTP exchange with the JobManager should this pass make one.  Every     *)
(* function that the code runs for its effects returns, beside its Go      *)
(* results, the requests it issued: calls (to the API server, in order)    *)
(* and probes (the URLs fetched).                                          *)
(***************************************************************************)

\* The zero value of _ObservedClusterState.
NoObservedState ==
    [cluster |-> <<>>, jmDeployment |-> <<>>, jmService |-> <<>>,
     tmDeployment |-> <<>>, job |-> <<>>, jobPod |-> <<>>, flinkJobID |-> <<>>]

observeCluster(observer) ==
    GetCluster(observer.k8sClient, observer.request)

observeDeployment(observer, namespace, name, component) ==
    Get(observer.k8sClient, "Deployment", namespace, name)

observeJobManagerDeployment(observer) ==
    LET clusterNamespace == observer.request.Namespace
        clusterName == observer.request.Name
        jmDeploymentName == getJobManagerDeploymentName(clusterName)
    IN  observeDeployment(observer, clusterNamespace, jmDeploymentName, "JobManager")

observeTaskManagerDeployment(observer) ==
    LET clusterNamespace == observer.request.Namespace
        clusterName == observer.request.Name
        tmDeploymentName == getTaskManagerDeploymentName(clusterName)
    IN  observeDeployment(observer, clusterNamespace, tmDeploymentName, "TaskManager")

observeJobManagerService(observer) ==
    LET clusterNamespace == observer.request.Namespace
        clusterName == observer.request.Name
    IN  Get(observer.k8sClient, "Service", clusterNamespace,
            getJobManagerServiceName(clusterName))

observeJobResource(observer) ==
    LET clusterNamespace == observer.request.Namespace
        clusterName == observer.request.Name
    IN  Get(observer.k8sClient, "Job", clusterNamespace, getJobName(clusterName))

observeJobPods(observer) ==
    LET clusterName == observer.request.Name
        jobName == getJobName(observer.request.Name)
        matchingLabels == [app |-> <<"f", "l", "i", "n", "k">>,
                           cluster |-> clusterName,
                           jobname |-> jobName]
    IN  List(observer.k8sClient, observer.request.Namespace, matchingLabels)

\* json.Unmarshal(body, &jobStatusList), whose error the code discards: a
\* body that is not JSON leaves the list empty; a JSON body leaves in
\* Jobs the entries that it decodes to.
Unmarshal(body) ==
    IF body.json THEN [Jobs |-> body.jobs] ELSE [Jobs |-> <<>>]

\* A faulty variant of getFlinkJobID: a failed exchange yields a pointer to
\* the empty string instead of nil.
getFlinkJobIDOrEmpty(observer, url) ==
    LET http == observer.http IN
    IF http.doErr \/ http.readErr
    THEN << <<>> >>
    ELSE LET jobStatusList == Unmarshal(http.body) IN
         IF Len(jobStatusList.Jobs) > 0
         THEN <<jobStatusList.Jobs[1].ID>>
         ELSE << <<>> >>

\* The exchange is observer.http = [doErr, readErr, body]: client.Do failed
\* (network failure, timeout), reading the body failed, and the body.
getFlinkJobID(observer, url) ==
    LET http == observer.http IN
    IF http.doErr
    THEN <<>>
    ELSE IF http.readErr
    THEN <<>>
    ELSE LET jobStatusList == Unmarshal(http.body) IN
         IF Len(jobStatusList.Jobs) > 0
         THEN <<jobStatusList.Jobs[1].ID>>
         ELSE <<>>

\* A faulty variant of jobIDAvailable: the recorded identifier is never used.
jobIDNeverAvailable(observedJobStatus) == FALSE

\* The test of the persisted job status that decides between reusing the
\* recorded identifier and probing for it.
jobIDAvailable(observedJobStatus) ==
    observedJobStatus # <<>> /\ Len(observedJobStatus[1].ID) > 0

\* A faulty variant of isJobCreated: a pod in phase Unknown counts as created.
isJobCreatedIgnoringUnknown(observedJob, observedState) ==
    /\ observedJob # <<>>
    /\ observedState.jobPod # <<>>
    /\ observedState.jobPod[1].Status.Phase # "Pending"

isJobCreated(observedJob, observedState) ==
    /\ observedJob # <<>>
    /\ observedState.jobPod # <<>>
    /\ observedState.jobPod[1].Status.Phase # "Pending"
    /\ observedState.jobPod[1].Status.Phase # "Unknown"

\* A faulty variant of observedJobPod: of several pods, the first is taken.
observedJobPodFirst(observedState, Items) ==
    IF Len(Items) >= 1
    THEN [err |-> NoError, jobPod |-> <<Items[1]>>]
    ELSE [err |-> NoError, jobPod |-> observedState.jobPod]

\* What the listed pods make of observedState.jobPod: [err, jobPod].
observedJobPod(observedState, Items) ==
    IF Len(Items) = 1
    THEN [err |-> NoError, jobPod |-> <<Items[1]>>]
    ELSE IF Len(Items) > 1
    THEN [err |-> "Exactly one job pod is expected, but found more",
          jobPod |-> observedState.jobPod]
    ELSE [err |-> NoError, jobPod |-> observedState.jobPod]

\* The "Flink job ID" part of observeJob.  observedJob is the local variable
\* of that name; the result is [observedState, probes].
observeFlinkJobID(observer, observedState, observedJob) ==
    LET observedJobStatus == observedState.cluster[1].Status.Components.Job IN
    IF jobIDAvailable(observedJobStatus)
    THEN [observedState |->
              [observedState EXCEPT !.flinkJobID = <<observedJobStatus[1].ID>>],
          probes |-> <<>>]
    ELSE IF isJobCreated(observedJob, observedState) /\ observedState.jmService # <<>>
    THEN LET url ==
                <<"h", "t", "t", "p", ":", "/", "/">>
                \o observedState.jmService[1].Name
                \o <<".">>
                \o observedState.jmService[1].Namespace
                \o <<".", "s", "v", "c", ".", "c", "l", "u", "s", "t", "e", "r",
                     ".", "l", "o", "c", "a", "l", ":">>
                \o Itoa(observedState.cluster[1].Spec.JobManagerSpec.Ports.UI[1])
                \o <<"/", "j", "o", "b", "s">>
             flinkJobID == getFlinkJobID(observer, url)
         IN  [observedState |->
                  IF flinkJobID # <<>>
                  THEN [observedState EXCEPT !.flinkJobID = flinkJobID]
                  ELSE observedState,
              probes |-> <<url>>]
    ELSE [observedState |-> observedState, probes |-> <<>>]

\* The result is [err, observedState, calls, probes]: the error returned,
\* the state that observedState points to when the function returns, and
\* the requests issued.
\* A faulty variant of setObservedJob: the job that was found is not put
\* into the observed state.
dropObservedJob(observedState, job) == observedState

\* The else branch of the job-resource step of observeJob: a job that was
\* found is assigned to observedState.job, which stays as it was when the
\* job was not found.  job is the answer [err, obj] of the lookup.
setObservedJob(observedState, job) ==
    IF job.err # NoError
    THEN observedState
    ELSE [observedState EXCEPT !.job = job.obj]

\* A faulty variant of noJobToObserve: only a deleted cluster ends observeJob
\* early.
clusterDeleted(observedState) == observedState.cluster = <<>>

\* The test that opens observeJob: either the cluster has been deleted or
\* it is a session cluster.
noJobToObserve(observedState) ==
    \/ observedState.cluster = <<>>
    \/ observedState.cluster[1].Spec.JobSpec = <<>>

observeJob(observer, observedState) ==
    IF noJobToObserve(observedState)
    THEN [err |-> NoError, observedState |-> observedState,
          calls |-> <<>>, probes |-> <<>>]
    ELSE
    LET job == observeJobResource(observer)
        jobCall == <<[lookup |-> "job", err |-> job.err]>>
    IN
    IF job.err # NoError /\ IgnoreNotFound(job.err) # NoError
    THEN [err |-> job.err, observedState |-> observedState,
          calls |-> jobCall, probes |-> <<>>]
    ELSE
    LET observedJob == IF job.err # NoError THEN <<>> ELSE job.obj
        s1 == setObservedJob(observedState, job)
        pods == observeJobPods(observer)
        podsCall == jobCall \o <<[lookup |-> "jobPods", err |-> pods.err]>>
    IN
    IF pods.err # NoError /\ IgnoreNotFound(pods.err) # NoError
    THEN [err |-> pods.err, observedState |-> s1,
          calls |-> podsCall, probes |-> <<>>]
    ELSE
    LET pod == IF pods.err # NoError
               THEN [err |-> NoError, jobPod |-> s1.jobPod]
               ELSE observedJobPod(s1, pods.Items)
        s2 == [s1 EXCEPT !.jobPod = pod.jobPod]
    IN
    IF pod.err # NoError
    THEN [err |-> pod.err, observedState |-> s2,
          calls |-> podsCall, probes |-> <<>>]
    ELSE
    LET id == observeFlinkJobID(observer, s2, observedJob) IN
    [err |-> NoError, observedState |-> id.observedState,
     calls |-> podsCall, probes |-> id.probes]

\* The result is [err, observedState, calls, probes], as for observeJob.
observe(observer, observedState) ==
    LET cluster == observeCluster(observer)
        c1 == <<[lookup |-> "cluster", err |-> cluster.err]>>
    IN
    IF cluster.err # NoError /\ IgnoreNotFound(cluster.err) # NoError
    THEN [err |-> cluster.err, observedState |-> observedState,
          calls |-> c1, probes |-> <<>>]
    ELSE
    LET s1 == IF cluster.err # NoError
              THEN observedState
              ELSE [observedState EXCEPT !.cluster = cluster.obj]
        jmDeployment == observeJobManagerDeployment(observer)
        c2 == c1 \o <<[lookup |-> "jmDeployment", err |-> jmDeployment.err]>>
    IN
    IF jmDeployment.err # NoError /\ IgnoreNotFound(jmDeployment.err) # NoError
    THEN [err |-> jmDeployment.err, observedState |-> s1,
          calls |-> c2, probes |-> <<>>]
    ELSE
    LET s2 == IF jmDeployment.err # NoError
              THEN s1
              ELSE [s1 EXCEPT !.jmDeployment = jmDeployment.obj]
        jmService == observeJobManagerService(observer)
        c3 == c2 \o <<[lookup |-> "jmService", err |-> jmService.err]>>
    IN
    IF jmService.err # NoError /\ IgnoreNotFound(jmService.err) # NoError
    THEN [err |-> jmService.err, observedState |-> s2,
          calls |-> c3, probes |-> <<>>]
    ELSE
    LET s3 == IF jmService.err # NoError
              THEN s2
              ELSE [s2 EXCEPT !.jmService = jmService.obj]
        tmDeployment == observeTaskManagerDeployment(observer)
        c4 == c3 \o <<[lookup |-> "tmDeployment", err |-> tmDeployment.err]>>
    IN
    IF tmDeployment.err # NoError /\ IgnoreNotFound(tmDeployment.err) # NoError
    THEN [err |-> tmDeployment.err, observedState |-> s3,
          calls |-> c4, probes |-> <<>>]
    ELSE
    LET s4 == IF tmDeployment.err # NoError
              THEN s3
              ELSE [s3 EXCEPT !.tmDeployment = tmDeployment.obj]
        job == observeJob(observer, s4)
    IN  [err |-> job.err, observedState |-> job.observedState,
         calls |-> c4 \o job.calls, probes |-> job.probes]

(***************************************************************************)
(* Inputs.                                                                 *)
(***************************************************************************)

\* The sample job cluster (flinkjobcluster-sample), with the fields that the
\* sample leaves out set as the API's defaulting sets them before the
\* controller reads the resource: every port, the access scope, the
\* replica count, the pull policy and the restart policy are present.
SampleJob ==
    [JarFile |-> <<".", "/", "e", "x", "a", "m", "p", "l", "e", "s", "/", "b", "a", "t", "c", "h", "/", "W", "o", "r", "d", "C", "o", "u", "n", "t", ".", "j", "a", "r">>,
     ClassName |-> << <<"o", "r", "g", ".", "a", "p", "a", "c", "h", "e", ".", "f", "l", "i", "n", "k", ".", "e", "x", "a", "m", "p", "l", "e", "s", ".", "j", "a", "v", "a", ".", "w", "o", "r", "d", "c", "o", "u", "n", "t", ".", "W", "o", "r", "d", "C", "o", "u", "n", "t">> >>,
     Args |-> << <<"-", "-", "i", "n", "p", "u", "t">>, <<".", "/", "R", "E", "A", "D", "M", "E", ".", "t", "x", "t">> >>,
     Savepoint |-> <<>>,
     AllowNonRestoredState |-> <<>>,
     Parallelism |-> <<2>>,
     NoLoggingToStdout |-> <<>>,
     Volumes |-> <<>>,
     Mounts |-> <<>>,
     RestartPolicy |-> <<"OnFailure">>]

SampleCluster ==
    [APIVersion |-> "flinkoperator.k8s.io/v1alpha1",
     Kind |-> "FlinkCluster",
     Namespace |-> <<"d", "e", "f", "a", "u", "l", "t">>,
     Name |-> <<"f", "l", "i", "n", "k", "j", "o", "b", "c", "l", "u", "s", "t", "e", "r", "-", "s", "a", "m", "p", "l", "e">>,
     UID |-> "uid-1",
     Spec |->
        [ImageSpec |-> [Name |-> "flink:1.8.1", PullPolicy |-> "Always",
                        PullSecrets |-> <<>>],
         JobManagerSpec |->
            [Replicas |-> <<1>>,
             AccessScope |-> "Cluster",
             Ports |-> [RPC |-> <<6123>>, Blob |-> <<6124>>,
                        Query |-> <<6125>>, UI |-> <<8081>>],
             Resources |-> [Limits |-> [memory |-> "512Mi", cpu |-> "200m"]],
             Volumes |-> <<>>, Mounts |-> <<>>, NodeSelector |-> <<>>],
         TaskManagerSpec |->
            [Replicas |-> 2,
             Ports |-> [Data |-> <<6121>>, RPC |-> <<6122>>, Query |-> <<6125>>],
             Resources |-> [Limits |-> [memory |-> "1024Mi", cpu |-> "200m"]],
             Sidecars |-> <<>>,
             Volumes |-> <<>>, Mounts |-> <<>>, NodeSelector |-> <<>>],
         JobSpec |-> <<SampleJob>>,
         FlinkProperties |-> (<<"t", "a", "s", "k", "m", "a", "n", "a", "g", "e", "r", ".", "n", "u", "m", "b", "e", "r", "O", "f", "T", "a", "s", "k", "S", "l", "o", "t", "s">> :> <<"1">>),
         EnvVars |-> <<>>],
     Status |->
        [State |-> ClusterState.Creating,
         Components |-> [Job |-> <<>>]]]

\* The request of a reconciliation pass: the key of the cluster.
Request == [Namespace |-> SampleCluster.Namespace, Name |-> SampleCluster.Name]

\* The requests whose failure a pass may meet, and how they fail.
Faults ==
    {NoFault}
    \cup {[Kind |-> "FlinkCluster", Name |-> Request.Name, err |-> "ServerError"],
          [Kind |-> "Deployment", Name |-> getJobManagerDeploymentName(Request.Name),
           err |-> "ServerError"],
          [Kind |-> "Service", Name |-> getJobManagerServiceName(Request.Name),
           err |-> "ServerError"],
          [Kind |-> "Deployment", Name |-> getTaskManagerDeploymentName(Request.Name),
           err |-> "ServerError"],
          [Kind |-> "Job", Name |-> getJobName(Request.Name), err |-> "ServerError"],
          [Kind |-> "PodList", Name |-> <<>>, err |-> "ServerError"],
          [Kind |-> "PodList", Name |-> <<>>, err |-> "NotFound"]}

\* The job lists that a JSON body of the status endpoint decodes to.
JobLists ==
    {<<>>,
     <<[ID |-> <<"a">>, Status |-> "RUNNING"]>>,
     <<[ID |-> <<"b">>, Status |-> "FINISHED"], [ID |-> <<"a">>, Status |-> "RUNNING"]>>,
     <<[ID |-> <<>>, Status |-> "RUNNING"]>>}

\* The outcomes of the HTTP exchange with the JobManager.
Exchanges ==
    {[doErr |-> TRUE, readErr |-> FALSE, body |-> [json |-> FALSE, jobs |-> <<>>]],
     [doErr |-> FALSE, readErr |-> TRUE, body |-> [json |-> FALSE, jobs |-> <<>>]],
     [doErr |-> FALSE, readErr |-> FALSE, body |-> [json |-> FALSE, jobs |-> <<>>]]}
    \cup {[doErr |-> FALSE, readErr |-> FALSE, body |-> [json |-> TRUE, jobs |-> js]] :
            js \in JobLists}

PodPhases == {"Pending", "Running", "Unknown"}

\* The objects that carry the names derived from the cluster's name.
ManagedObjects ==
    {[Kind |-> "Deployment", Namespace |-> Request.Namespace,
      Name |-> getJobManagerDeploymentName(Request.Name)],
     [Kind |-> "Service", Namespace |-> Request.Namespace,
      Name |-> getJobManagerServiceName(Request.Name)],
     [Kind |-> "Deployment", Namespace |-> Request.Namespace,
      Name |-> getTaskManagerDeploymentName(Request.Name)],
     [Kind |-> "Job", Namespace |-> Request.Namespace,
      Name |-> getJobName(Request.Name)]}

(***************************************************************************)
(* State.                                                                  *)
(*   k8s      the remote store: [cluster, objects, pods]                   *)
(*   pc       where the pass for the cluster stands: "idle", "observed"    *)
(*            (observe has returned), "desired" (the desired state is      *)
(*            computed), "crashed" (the process panicked)                  *)
(*   pass     what observe returned in this pass: [err, observedState,     *)
(*            calls, probes, http]; http points to the exchange made       *)
(*   desired  the calls of getDesiredClusterState made in this pass, each  *)
(*            [cluster, panic, ret]                                        *)
(***************************************************************************)
VARIABLES k8s, pc, pass, desired

vars == <<k8s, pc, pass, desired>>

NoPass ==
    [err |-> NoError, observedState |-> NoObservedState,
     calls |-> <<>>, probes |-> <<>>, http |-> <<>>]

Init ==
    /\ k8s \in {[cluster |-> <<c>>, objects |-> {}, pods |-> <<>>] :
                  c \in {SampleCluster, [SampleCluster EXCEPT !.Spec.JobSpec = <<>>]}}
    /\ pc = "idle"
    /\ pass = NoPass
    /\ desired = <<>>

\* The observer of a pass that meets the given fault and HTTP exchange.
Observer(fault, exchange) ==
    [k8sClient |-> [cluster |-> k8s.cluster, objects |-> k8s.objects,
                    pods |-> k8s.pods, fault |-> fault],
     request |-> Request,
     http |-> exchange]

\* One call of observe on a fresh _ObservedClusterState.  The exchange is
\* an input only of a pass that fetches a URL.
Observe ==
    /\ pc = "idle"
    /\ \E fault \in Faults :
          LET any == CHOOSE e \in Exchanges : TRUE
              probing == observe(Observer(fault, any), NoObservedState).probes # <<>>
          IN  \E exchange \in IF probing THEN Exchanges ELSE {any} :
                 LET r == observe(Observer(fault, exchange), NoObservedState) IN
                 pass' = [err |-> r.err, observedState |-> r.observedState,
                          calls |-> r.calls, probes |-> r.probes,
                          http |-> IF r.probes = <<>> THEN <<>> ELSE <<exchange>>]
    /\ pc' = "observed"
    /\ UNCHANGED <<k8s, desired>>

\* observe returned an error: the pass ends.
Abort ==
    /\ pc = "observed"
    /\ pass.err # NoError
    /\ pc' = "idle"
    /\ pass' = NoPass
    /\ UNCHANGED <<k8s, desired>>

\* The keys of the property map of a cluster pointer.
PropertyKeysOf(cluster) ==
    IF cluster = <<>> THEN {} ELSE DOMAIN cluster[1].Spec.FlinkProperties

\* One call of getDesiredClusterState on the observed cluster.
Convert ==
    \E orderJm, orderTm \in Orders(PropertyKeysOf(pass.observedState.cluster)) :
        LET r == getDesiredClusterState(pass.observedState.cluster, orderJm, orderTm) IN
        /\ desired' = Append(desired, [cluster |-> pass.observedState.cluster,
                                       panic |-> r.panic, ret |-> r.ret])
        /\ pc' = IF r.panic THEN "crashed" ELSE "desired"
        /\ UNCHANGED <<k8s, pass>>

ComputeDesired ==
    /\ pc = "observed"
    /\ pass.err = NoError
    /\ Convert

\* The diff of one resource: absent and desired creates it, present and not
\* desired deletes it.
Diff(objects, kind, namespace, name, want) ==
    LET key == [Kind |-> kind, Namespace |-> namespace, Name |-> name] IN
    IF want # <<>>
    THEN objects \cup {[Kind |-> kind,
                        Namespace |-> want[1].ObjectMeta.Namespace,
                        Name |-> want[1].ObjectMeta.Name]}
    ELSE objects \ {key}

\* The status written back: the job identifier observed in this pass.
UpdatedStatus(cluster, observedState) ==
    IF cluster # <<>> /\ observedState.flinkJobID # <<>>
    THEN <<[cluster[1] EXCEPT
              !.Status.Components.Job = <<[ID |-> observedState.flinkJobID[1]]>>]>>
    ELSE cluster

\* Diff-and-apply against the observed and desired states, then the status
\* update; the pass ends.
Reconcile ==
    /\ pc = "desired"
    /\ LET want == desired[Len(desired)].ret
           ns == Request.Namespace
           o1 == Diff(k8s.objects, "Deployment", ns,
                      getJobManagerDeploymentName(Request.Name), want.JmDeployment)
           o2 == Diff(o1, "Service", ns,
                      getJobManagerServiceName(Request.Name), want.JmService)
           o3 == Diff(o2, "Deployment", ns,
                      getTaskManagerDeploymentName(Request.Name), want.TmDeployment)
           o4 == Diff(o3, "Job", ns, getJobName(Request.Name), want.Job)
       IN  k8s' = [k8s EXCEPT !.objects = o4,
                              !.cluster = UpdatedStatus(k8s.cluster, pass.observedState)]
    /\ pc' = "idle"
    /\ pass' = NoPass
    /\ desired' = <<>>

\* The lifecycle transitions of the reconciliation engine.
Transitions ==
    {<<ClusterState.Creating, ClusterState.Running>>,
     <<ClusterState.Running, ClusterState.Updating>>,
     <<ClusterState.Updating, ClusterState.Running>>,
     <<ClusterState.Running, ClusterState.Stopping>>,
     <<ClusterState.Updating, ClusterState.Stopping>>,
     <<ClusterState.Stopping, ClusterState.Stopped>>,
     <<ClusterState.Creating, ClusterState.Failed>>,
     <<ClusterState.Running, ClusterState.Failed>>,
     <<ClusterState.Updating, ClusterState.Failed>>}

AdvancePhase ==
    /\ pc = "idle"
    /\ k8s.cluster # <<>>
    /\ \E t \in Transitions :
          /\ t[1] = k8s.cluster[1].Status.State
          /\ k8s' = [k8s EXCEPT !.cluster[1].Status.State = t[2]]
    /\ UNCHANGED <<pc, pass, desired>>

\* The user removes the job from the cluster's spec or puts it back.
EditJobSpec ==
    /\ pc = "idle"
    /\ k8s.cluster # <<>>
    /\ k8s' = [k8s EXCEPT !.cluster[1].Spec.JobSpec =
                  IF k8s.cluster[1].Spec.JobSpec = <<>> THEN <<SampleJob>> ELSE <<>>]
    /\ UNCHANGED <<pc, pass, desired>>

\* The user deletes the cluster resource.
DeleteCluster ==
    /\ pc = "idle"
    /\ k8s.cluster # <<>>
    /\ k8s' = [k8s EXCEPT !.cluster = <<>>]
    /\ UNCHANGED <<pc, pass, desired>>

\* Another actor (a user, the garbage collector) creates or deletes one of
\* the objects that carry the derived names.
ExternalChange ==
    /\ pc = "idle"
    /\ \E o \in ManagedObjects :
          k8s' = [k8s EXCEPT !.objects =
                     IF o \in k8s.objects THEN k8s.objects \ {o} ELSE k8s.objects \cup {o}]
    /\ UNCHANGED <<pc, pass, desired>>

\* The pods that carry the job's labels: the job controller or a user
\* creates one, a pod changes phase, a pod goes away.
PodChange ==
    /\ pc = "idle"
    /\ \/ /\ Len(k8s.pods) < MaxPods
          /\ \E p \in PodPhases :
                k8s' = [k8s EXCEPT !.pods = Append(k8s.pods, [Status |-> [Phase |-> p]])]
       \/ \E i \in DOMAIN k8s.pods, p \in PodPhases :
             /\ p # k8s.pods[i].Status.Phase
             /\ k8s' = [k8s EXCEPT !.pods[i].Status.Phase = p]
       \/ /\ k8s.pods # <<>>
          /\ k8s' = [k8s EXCEPT !.pods = SubSeq(k8s.pods, 1, Len(k8s.pods) - 1)]
    /\ UNCHANGED <<pc, pass, desired>>

Next ==
    \/ Observe
    \/ Abort
    \/ ComputeDesired
    \/ Reconcile
    \/ AdvancePhase
    \/ EditJobSpec
    \/ DeleteCluster
    \/ ExternalChange
    \/ PodChange

Spec == Init /\ [][Next]_vars

(***************************************************************************)
(* The Converter on its own: the inputs are drawn from bounded sets and    *)
(* getDesiredClusterState is called on each, twice.                        *)
(***************************************************************************)

\* "Internal" stands for the values that are no access scope.
AccessScopes == {AccessScope.Cluster, AccessScope.VPC, AccessScope.External, "Internal"}

ClusterStates == {ClusterState[f] : f \in DOMAIN ClusterState}

\* Jar references: every string of at most MaxJarLen characters over a
\* letter, the colon and the slash.
JarFiles == UNION {[1..n -> {"a", ":", "/"}] : n \in 0..MaxJarLen}

RemoteJar == <<"s", "3", ":", "/", "/", "b", "u", "c", "k", "e", "t", "/", "p", "a", "t", "h", "/", "a", "p", "p", ".", "j", "a", "r">>

\* Property maps: at most MaxProps of these keys, each with a value.
PropertyKeyList == << <<"t", "a", "s", "k", "m", "a", "n", "a", "g", "e", "r", ".", "n", "u", "m", "b", "e", "r", "O", "f", "T", "a", "s", "k", "S", "l", "o", "t", "s">>, <<"a">>, <<"b">>, <<"c">> >>

PropertyMaps ==
    LET keys == {PropertyKeyList[i] : i \in 1..MaxProps} IN
    UNION {[K -> {<<"1">>}] : K \in SUBSET keys}

\* An environment variable of the cluster's spec that bears the name the
\* Converter itself uses for the jar.
UserEnvVars ==
    {<<>>, <<[Name |-> "FLINK_JOB_JAR_URI", Value |-> <<"u">>, ValueFrom |-> <<>>]>>}

\* Sample clusters in every phase and access scope, with and without a job.
PhaseInputs ==
    {[SampleCluster EXCEPT !.Status.State = st,
                           !.Spec.JobManagerSpec.AccessScope = scope,
                           !.Spec.JobSpec = job] :
        st \in ClusterStates, scope \in AccessScopes, job \in {<<>>, <<SampleJob>>}}

PropertyInputs ==
    {[SampleCluster EXCEPT !.Spec.FlinkProperties = m, !.Status.State = st] :
        m \in PropertyMaps, st \in {ClusterState.Running, ClusterState.Stopped}}

JarInputs ==
    {[SampleCluster EXCEPT !.Spec.JobSpec[1].JarFile = jar, !.Spec.EnvVars = env] :
        jar \in JarFiles, env \in UserEnvVars}

JobInputs ==
    {[SampleCluster EXCEPT !.Spec.JobSpec =
          <<[SampleJob EXCEPT !.JarFile = jar,
                              !.ClassName = class,
                              !.Savepoint = savepoint,
                              !.AllowNonRestoredState = allow,
                              !.Parallelism = parallelism,
                              !.NoLoggingToStdout = quiet,
                              !.Args = args]>>] :
        jar \in {SampleJob.JarFile, RemoteJar},
        class \in {<<>>, SampleJob.ClassName},
        savepoint \in {<<>>, << <<"/", "s", "p">> >>},
        allow \in {<<>>, <<FALSE>>, <<TRUE>>},
        parallelism \in {<<>>, <<2>>, <<-1>>},
        quiet \in {<<>>, <<FALSE>>, <<TRUE>>},
        args \in {<<>>, SampleJob.Args}}

ConverterInputs ==
    {<<>>} \cup {<<c>> : c \in PhaseInputs \cup PropertyInputs \cup JarInputs \cup JobInputs}

\* observe has just returned the cluster.
ConvInit ==
    /\ \E cluster \in ConverterInputs :
          /\ k8s = [cluster |-> cluster, objects |-> {}, pods |-> <<>>]
          /\ pass = [NoPass EXCEPT !.observedState.cluster = cluster]
    /\ pc = "observed"
    /\ desired = <<>>

\* A second call on the same cluster.
Recompute ==
    /\ pc = "desired"
    /\ Len(desired) < 2
    /\ Convert

ConvNext ==
    \/ ComputeDesired
    \/ Recompute

ConvSpec == ConvInit /\ [][ConvNext]_vars

(***************************************************************************)
(* Properties.                                                             *)
(***************************************************************************)

\* The job identifier in the persisted status; the empty string when the
\* cluster is gone or its status holds none.
PersistedJobID ==
    IF k8s.cluster = <<>> \/ k8s.cluster[1].Status.Components.Job = <<>>
    THEN <<>>
    ELSE k8s.cluster[1].Status.Components.Job[1].ID

\* The request of the pass for the given lookup was answered without error.
Answered(lookup) ==
    \E i \in DOMAIN pass.calls :
        pass.calls[i].lookup = lookup /\ pass.calls[i].err = NoError

\* The live object of the given kind and name, as a pointer.
Live(kind, name) ==
    LET key == [Kind |-> kind, Namespace |-> Request.Namespace, Name |-> name] IN
    IF key \in k8s.objects THEN <<key>> ELSE <<>>

\* C1: for every cluster whose phase is Stopping or Stopped,
\* getDesiredClusterState returns all four desired resources as nil, whatever
\* the other fields of the spec are, a JobSpec included.
C1_PhaseGating ==
    \A i \in DOMAIN desired :
        LET call == desired[i] IN
        (/\ call.cluster # <<>>
         /\ call.cluster[1].Status.State \in {ClusterState.Stopping, ClusterState.Stopped})
        => (~call.panic /\ call.ret = NoDesiredState)

\* C2: in a pass whose persisted status holds no job identifier, observe
\* fetches the job status if and only if the job resource was observed, the
\* pod list held exactly one pod, that pod's phase is neither Pending nor
\* Unknown, and the manager service was observed.
C2_ProbeGating ==
    (pc = "observed" /\ PersistedJobID = <<>>)
    => (pass.probes # <<>>
        <=> /\ pass.observedState.job # <<>>
            /\ Answered("jobPods")
            /\ Len(k8s.pods) = 1
            /\ k8s.pods[1].Status.Phase \notin {"Pending", "Unknown"}
            /\ pass.observedState.jmService # <<>>)

\* A pass without a persisted identifier that fetches the job status.
C2_Witness ==
    pc = "observed" /\ PersistedJobID = <<>> /\ Len(pass.probes) = 1

\* C4: when the pod list holds two or more pods, observe returns an error,
\* sets no jobPod and fetches no job status.
C4_PodCount ==
    (pc = "observed" /\ Answered("jobPods") /\ Len(k8s.pods) >= 2)
    => /\ pass.err = "Exactly one job pod is expected, but found more"
       /\ pass.observedState.jobPod = <<>>
       /\ pass.probes = <<>>

\* A pass whose pod list holds two pods, with the job and the manager
\* service live and no identifier persisted.
C4_Witness ==
    /\ pc = "observed"
    /\ Answered("jobPods")
    /\ Len(k8s.pods) >= 2
    /\ k8s.pods[1].Status.Phase = "Running"
    /\ pass.observedState.job # <<>>
    /\ pass.observedState.jmService # <<>>
    /\ PersistedJobID = <<>>

\* The lookups of observe, in the order the code issues them, and the field
\* of the observed state that each fills.
LookupOrder ==
    <<"cluster", "jmDeployment", "jmService", "tmDeployment", "job", "jobPods">>

FieldOf(lookup) ==
    CASE lookup = "cluster" -> pass.observedState.cluster
      [] lookup = "jmDeployment" -> pass.observedState.jmDeployment
      [] lookup = "jmService" -> pass.observedState.jmService
      [] lookup = "tmDeployment" -> pass.observedState.tmDeployment
      [] lookup = "job" -> pass.observedState.job
      [] lookup = "jobPods" -> pass.observedState.jobPod

\* C5: a lookup answered NotFound leaves its field absent and the
\* observation goes on to the next lookup, and NotFound alone is no error;
\* a lookup answered with any other error ends observe with that error, with
\* no later lookup and no fetch of the job status.
C5_LookupErrors ==
    pc = "observed" =>
    /\ \A i \in DOMAIN pass.calls : pass.calls[i].lookup = LookupOrder[i]
    /\ \A i \in DOMAIN pass.calls :
          LET call == pass.calls[i] IN
          /\ call.err = "NotFound" =>
                /\ FieldOf(call.lookup) = <<>>
                /\ i \in {1, 2, 3, 5} => Len(pass.calls) > i
                /\ (/\ i = 4
                    /\ pass.observedState.cluster # <<>>
                    /\ pass.observedState.cluster[1].Spec.JobSpec # <<>>)
                   => Len(pass.calls) > i
          /\ call.err \notin {NoError, "NotFound"} =>
                /\ pass.err = call.err
                /\ i = Len(pass.calls)
                /\ pass.probes = <<>>
    /\ (/\ \A i \in DOMAIN pass.calls : pass.calls[i].err \in {NoError, "NotFound"}
        /\ ~(Answered("jobPods") /\ Len(k8s.pods) >= 2))
       => pass.err = NoError

\* A pass in which one lookup is answered NotFound and a later one fails.
C5_Witness ==
    /\ pc = "observed"
    /\ \E i, j \in DOMAIN pass.calls :
          /\ i < j
          /\ pass.calls[i].err = "NotFound"
          /\ pass.calls[j].err = "ServerError"
          /\ j = 6

\* observe went as far as the job identifier: the cluster was found with a
\* JobSpec and it returned no error.
ReachedJobID ==
    /\ pass.err = NoError
    /\ pass.observedState.cluster # <<>>
    /\ pass.observedState.cluster[1].Spec.JobSpec # <<>>

\* C3 as stated: once the persisted status holds a job identifier, every
\* later observe reports that identifier and fetches no job status.
C3_AlwaysReported ==
    (pc = "observed" /\ PersistedJobID # <<>>)
    => /\ pass.observedState.flinkJobID = <<PersistedJobID>>
       /\ pass.probes = <<>>

\* With an identifier persisted, observe fetches no job status; it reports
\* that identifier when it goes as far as the job identifier, and none
\* when it ends earlier.
C3_NoReprobe ==
    (pc = "observed" /\ PersistedJobID # <<>>)
    => /\ pass.probes = <<>>
       /\ pass.observedState.flinkJobID =
             IF ReachedJobID THEN <<PersistedJobID>> ELSE <<>>

\* A persisted identifier stays what it is for as long as the cluster
\* resource exists.
C3_Permanent ==
    (PersistedJobID # <<>> /\ k8s'.cluster # <<>>) => PersistedJobID' = PersistedJobID

\* C3 (amended): once the persisted status holds a job identifier, it keeps
\* that identifier for as long as the cluster resource exists, no later
\* observe fetches the job status, and every later observe that goes as far
\* as the job identifier (cluster found with a JobSpec, no lookup error, at
\* most one job pod) reports that same identifier.
C3_PermanentJobID == [](C3_NoReprobe) /\ [][C3_Permanent]_vars

\* A pass that reports the persisted identifier although everything that
\* a fetch of the job status needs is there.
C3_Witness ==
    /\ pc = "observed"
    /\ PersistedJobID # <<>>
    /\ pass.observedState.flinkJobID = <<PersistedJobID>>
    /\ pass.observedState.job # <<>>
    /\ pass.observedState.jobPod # <<>>
    /\ pass.observedState.jobPod[1].Status.Phase = "Running"
    /\ pass.observedState.jmService # <<>>

\* C6: two calls of getDesiredClusterState with the identical cluster return
\* identical desired states, the value of FLINK_PROPERTIES included.
C6_Deterministic ==
    \A i, j \in DOMAIN desired :
        desired[i].cluster = desired[j].cluster
        => (desired[i].panic = desired[j].panic /\ desired[i].ret = desired[j].ret)

\* C7: when the access scope is none of Cluster, VPC, External and the phase
\* is neither Stopping nor Stopped, the computation of the desired state
\* ends without aborting the process and yields no manager service.
C7_UnknownScopeIsNoAbort ==
    \A i \in DOMAIN desired :
        LET call == desired[i] IN
        (/\ call.cluster # <<>>
         /\ call.cluster[1].Spec.JobManagerSpec.AccessScope
                \notin {AccessScope.Cluster, AccessScope.VPC, AccessScope.External}
         /\ call.cluster[1].Status.State
                \notin {ClusterState.Stopping, ClusterState.Stopped})
        => (~call.panic /\ pc # "crashed" /\ call.ret.JmService = <<>>)

\* C8: no pass has a desired job while the manager deployment or the manager
\* service is observed absent.
C8_NoJobBeforeManager ==
    pc = "desired"
    => ~(/\ desired[Len(desired)].ret.Job # <<>>
         /\ \/ pass.observedState.jmDeployment = <<>>
            \/ pass.observedState.jmService = <<>>)

\* The exchange yields no job: the request failed, the body could not be
\* read, the body is no JSON, or the job list is empty.
ProbeFailed(http) ==
    http.doErr \/ http.readErr \/ ~http.body.json \/ http.body.jobs = <<>>

\* C9: a failed fetch of the job status is not fatal: observe returns no
\* error, the observed job identifier stays absent, every other observed
\* field is as the lookups found it, and the status still holds no
\* identifier, so that the next pass fetches again.
C9_ProbeFailureNotFatal ==
    (pc = "observed" /\ pass.probes # <<>> /\ ProbeFailed(pass.http[1]))
    => /\ pass.err = NoError
       /\ PersistedJobID = <<>>
       /\ pass.observedState =
             [cluster |-> k8s.cluster,
              jmDeployment |-> Live("Deployment", getJobManagerDeploymentName(Request.Name)),
              jmService |-> Live("Service", getJobManagerServiceName(Request.Name)),
              tmDeployment |-> Live("Deployment", getTaskManagerDeploymentName(Request.Name)),
              job |-> Live("Job", getJobName(Request.Name)),
              jobPod |-> <<k8s.pods[1]>>,
              flinkJobID |-> <<>>]

\* A pass whose fetch failed because the request itself failed.
C9_Witness ==
    /\ pc = "observed"
    /\ pass.probes # <<>>
    /\ pass.http[1].doErr

\* The part of s after its last slash; s when it has none.
LastSegment(s) ==
    LET slashes == {i \in 1..Len(s) : s[i] = "/"} IN
    IF slashes = {}
    THEN s
    ELSE SubSeq(s, (CHOOSE i \in slashes : \A j \in slashes : j <= i) + 1, Len(s))

HasSchemeSeparator(s) ==
    \E i \in 1..(Len(s) - 2) : s[i] = ":" /\ s[i + 1] = "/" /\ s[i + 2] = "/"

\* C10: for a jar reference that contains "://", the jar argument of the
\* desired job is "/opt/flink/job/" followed by the last "/"-separated
\* segment of the reference, and FLINK_JOB_JAR_URI with the reference as its
\* value is added to the container's environment; for a reference without
\* "://" the jar argument is the reference and no variable is added.
C10_JarRewrite ==
    \A i \in DOMAIN desired :
        LET call == desired[i] IN
        (call.cluster # <<>> /\ ~call.panic /\ call.cluster[1].Spec.JobSpec # <<>>)
        => LET jobSpec == call.cluster[1].Spec.JobSpec[1]
               container == call.ret.Job[1].Spec.Template.Spec.Containers[1]
               jarArg == container.Args[Len(container.Args) - Len(jobSpec.Args)]
           IN  IF HasSchemeSeparator(jobSpec.JarFile)
               THEN /\ jarArg =
                          <<"/", "o", "p", "t", "/", "f", "l", "i", "n", "k", "/", "j", "o", "b", "/">>
                          \o LastSegment(jobSpec.JarFile)
                    /\ container.Env =
                          call.cluster[1].Spec.EnvVars
                          \o <<[Name |-> "FLINK_JOB_JAR_URI",
                                Value |-> jobSpec.JarFile,
                                ValueFrom |-> <<>>]>>
               ELSE /\ jarArg = jobSpec.JarFile
                    /\ container.Env = call.cluster[1].Spec.EnvVars

\* A desired job computed for a remote jar whose reference has several
\* segments after the scheme.
C10_Witness ==
    \E i \in DOMAIN desired :
        /\ desired[i].ret.Job # <<>>
        /\ desired[i].cluster[1].Spec.JobSpec[1].JarFile = RemoteJar

\* The arguments that an option of the JobSpec contributes when it is there.
Option(present, args) == IF present THEN args ELSE <<>>

\* C11: for every JobSpec, the argument sequence of the desired job is, in
\* this order: "./bin/flink", "run", "--jobmanager", the address
\* "<cluster>-jobmanager:<uiPort>"; "--class" and the class if an entry class
\* is set; "--fromSavepoint" and the path if a savepoint is set;
\* "--allowNonRestoredState" if it is requested; "--parallelism" and the
\* value if it is set; "--sysoutLogging" if no logging to stdout is
\* requested; the jar path; the user arguments in their order; and nothing
\* else.
C11_JobArgs ==
    \A i \in DOMAIN desired :
        LET call == desired[i] IN
        (call.cluster # <<>> /\ ~call.panic /\ call.cluster[1].Spec.JobSpec # <<>>)
        => LET cluster == call.cluster[1]
               jobSpec == cluster.Spec.JobSpec[1]
               address == cluster.Name
                          \o <<"-", "j", "o", "b", "m", "a", "n", "a", "g", "e", "r", ":">>
                          \o Itoa(cluster.Spec.JobManagerSpec.Ports.UI[1])
               jar == IF HasSchemeSeparator(jobSpec.JarFile)
                      THEN <<"/", "o", "p", "t", "/", "f", "l", "i", "n", "k", "/", "j", "o", "b", "/">>
                           \o LastSegment(jobSpec.JarFile)
                      ELSE jobSpec.JarFile
           IN  /\ call.ret.Job # <<>>
               /\ Len(call.ret.Job[1].Spec.Template.Spec.Containers) = 1
               /\ call.ret.Job[1].Spec.Template.Spec.Containers[1].Args =
                     << <<".", "/", "b", "i", "n", "/", "f", "l", "i", "n", "k">>,
                        <<"r", "u", "n">>,
                        <<"-", "-", "j", "o", "b", "m", "a", "n", "a", "g", "e", "r">>,
                        address >>
                     \o Option(jobSpec.ClassName # <<>>,
                               << <<"-", "-", "c", "l", "a", "s", "s">> >> \o jobSpec.ClassName)
                     \o Option(jobSpec.Savepoint # <<>>,
                               << <<"-", "-", "f", "r", "o", "m", "S", "a", "v", "e", "p", "o", "i", "n", "t">> >>
                               \o jobSpec.Savepoint)
                     \o Option(jobSpec.AllowNonRestoredState = <<TRUE>>,
                               << <<"-", "-", "a", "l", "l", "o", "w", "N", "o", "n", "R", "e", "s",
                                    "t", "o", "r", "e", "d", "S", "t", "a", "t", "e">> >>)
                     \o Option(jobSpec.Parallelism # <<>>,
                               << <<"-", "-", "p", "a", "r", "a", "l", "l", "e", "l", "i", "s", "m">> >>
                               \o (IF jobSpec.Parallelism = <<>> THEN <<>>
                                   ELSE <<Itoa(jobSpec.Parallelism[1])>>))
                     \o Option(jobSpec.NoLoggingToStdout = <<TRUE>>,
                               << <<"-", "-", "s", "y", "s", "o", "u", "t", "L", "o", "g", "g", "i", "n", "g">> >>)
                     \o <<jar>>
                     \o jobSpec.Args

\* A desired job whose JobSpec sets every option but asks for state that
\* cannot be restored to be refused, with user arguments after the jar.
C11_Witness ==
    \E i \in DOMAIN desired :
        /\ desired[i].ret.Job # <<>>
        /\ LET jobSpec == desired[i].cluster[1].Spec.JobSpec[1] IN
           /\ jobSpec.ClassName # <<>>
           /\ jobSpec.Savepoint # <<>>
           /\ jobSpec.AllowNonRestoredState = <<FALSE>>
           /\ jobSpec.Parallelism # <<>>
           /\ jobSpec.NoLoggingToStdout = <<TRUE>>
           /\ jobSpec.Args # <<>>

\* The ports of the desired manager service for the ports of the manager.
ManagerServicePorts(ports) ==
    << [Name |-> "rpc", Port |-> ports.RPC[1], TargetPort |-> "rpc"],
       [Name |-> "blob", Port |-> ports.Blob[1], TargetPort |-> "blob"],
       [Name |-> "query", Port |-> ports.Query[1], TargetPort |-> "query"],
       [Name |-> "ui", Port |-> ports.UI[1], TargetPort |-> "ui"] >>

\* C12: the exposure of the desired manager service follows the access
\* scope: Cluster gives type ClusterIP and no annotation, VPC gives type
\* LoadBalancer and the annotation of an internal load balancer, External
\* gives type LoadBalancer and no annotation; in all three the service has
\* exactly one port for each of the manager's ports rpc, blob, query, ui.
C12_ServiceExposure ==
    \A i \in DOMAIN desired :
        LET call == desired[i] IN
        (/\ call.cluster # <<>>
         /\ call.cluster[1].Status.State
                \notin {ClusterState.Stopping, ClusterState.Stopped}
         /\ call.cluster[1].Spec.JobManagerSpec.AccessScope
                \in {AccessScope.Cluster, AccessScope.VPC, AccessScope.External})
        => /\ ~call.panic
           /\ call.ret.JmService # <<>>
           /\ LET scope == call.cluster[1].Spec.JobManagerSpec.AccessScope
                  service == call.ret.JmService[1]
              IN  /\ service.Spec.Type =
                        IF scope = AccessScope.Cluster THEN "ClusterIP" ELSE "LoadBalancer"
                  /\ IF scope = AccessScope.VPC
                     THEN service.ObjectMeta.Annotations =
                             ("cloud.google.com/load-balancer-type" :> "Internal")
                     ELSE service.ObjectMeta.Annotations = <<>>
                  /\ service.Spec.Ports =
                        ManagerServicePorts(call.cluster[1].Spec.JobManagerSpec.Ports)

\* A desired manager service computed for the VPC scope.
C12_Witness ==
    \E i \in DOMAIN desired :
        /\ desired[i].cluster # <<>>
        /\ desired[i].cluster[1].Spec.JobManagerSpec.AccessScope = AccessScope.VPC
        /\ desired[i].ret.JmService # <<>>

\* The pass looked the cluster up and found it absent or without a JobSpec.
NoJobCluster ==
    /\ pc = "observed"
    /\ pass.calls[1].err \in {NoError, "NotFound"}
    /\ \/ k8s.cluster = <<>>
       \/ k8s.cluster[1].Spec.JobSpec = <<>>

\* The pass issued no request for the job resource or the job's pods and
\* no fetch of the job status, and reports none of the three.
NoJobObserved ==
    /\ \A i \in DOMAIN pass.calls : pass.calls[i].lookup \notin {"job", "jobPods"}
    /\ pass.probes = <<>>
    /\ pass.observedState.job = <<>>
    /\ pass.observedState.jobPod = <<>>
    /\ pass.observedState.flinkJobID = <<>>

\* The pass looked up the manager deployment, the manager service and the
\* worker deployment and reports each as it is live.
ManagerAndWorkersObserved ==
    /\ [i \in DOMAIN pass.calls |-> pass.calls[i].lookup] = SubSeq(LookupOrder, 1, 4)
    /\ pass.observedState.jmDeployment =
          Live("Deployment", getJobManagerDeploymentName(Request.Name))
    /\ pass.observedState.jmService =
          Live("Service", getJobManagerServiceName(Request.Name))
    /\ pass.observedState.tmDeployment =
          Live("Deployment", getTaskManagerDeploymentName(Request.Name))

\* C13 as stated: when the cluster is observed absent or has no JobSpec,
\* observe issues no job lookup, no pod list and no fetch of the job status,
\* returns no error with job, jobPod and job identifier absent, and still
\* looks up and reports the manager deployment, the manager service and the
\* worker deployment.
C13_AsStated ==
    NoJobCluster
    => /\ NoJobObserved
       /\ pass.err = NoError
       /\ ManagerAndWorkersObserved

\* C13 (amended): when the cluster is observed absent or has no JobSpec,
\* observe issues no job lookup, no pod list and no fetch of the job status
\* and reports job, jobPod and job identifier absent, whatever job resource
\* and pods are live; unless the lookup of the manager deployment, the
\* manager service or the worker deployment fails with an error other than
\* NotFound, which observe then returns, it returns no error and these
\* three are looked up and reported.
C13_NoJobLookups ==
    NoJobCluster
    => /\ NoJobObserved
       /\ IF \A i \in DOMAIN pass.calls : pass.calls[i].err \in {NoError, "NotFound"}
          THEN pass.err = NoError /\ ManagerAndWorkersObserved
          ELSE /\ pass.err = pass.calls[Len(pass.calls)].err
               /\ pass.err \notin {NoError, "NotFound"}

\* A pass for a cluster without a JobSpec while the job resource and a
\* running pod of it are live, together with the manager service.
C13_Witness ==
    /\ NoJobCluster
    /\ k8s.cluster # <<>>
    /\ pass.err = NoError
    /\ Live("Job", getJobName(Request.Name)) # <<>>
    /\ Live("Service", getJobManagerServiceName(Request.Name)) # <<>>
    /\ Len(k8s.pods) = 1
    /\ k8s.pods[1].Status.Phase = "Running"

\* What the lookup finds when it is answered without error.
LiveValue(lookup) ==
    CASE lookup = "cluster" -> k8s.cluster
      [] lookup = "jmDeployment" ->
            Live("Deployment", getJobManagerDeploymentName(Request.Name))
      [] lookup = "jmService" ->
            Live("Service", getJobManagerServiceName(Request.Name))
      [] lookup = "tmDeployment" ->
            Live("Deployment", getTaskManagerDeploymentName(Request.Name))
      [] lookup = "job" -> Live("Job", getJobName(Request.Name))

\* C14: when observe returns an error, the observed state is left partly
\* filled: every field whose lookup succeeded before the failing step holds
\* what the lookup found, and the field of the failing step and of every
\* later step is absent; when the error is that of more than one job pod,
\* the observed job is set if the job resource exists, and jobPod and the
\* job identifier are absent.
C14_PartialObservation ==
    (pc = "observed" /\ pass.err # NoError)
    => /\ \A i \in 1..5 :
             FieldOf(LookupOrder[i]) =
                IF i <= Len(pass.calls) /\ pass.calls[i].err = NoError
                THEN LiveValue(LookupOrder[i])
                ELSE <<>>
       /\ \A i \in 1..5 :
             (i <= Len(pass.calls) /\ pass.calls[i].err = NoError /\ i # 1)
             => LiveValue(LookupOrder[i]) # <<>>
       /\ pass.observedState.jobPod = <<>>
       /\ pass.observedState.flinkJobID = <<>>
       /\ pass.err = "Exactly one job pod is expected, but found more"
          => /\ pass.observedState.job = Live("Job", getJobName(Request.Name))
             /\ pass.observedState.cluster = k8s.cluster
             /\ k8s.cluster # <<>>

\* A pass that ends with the error of more than one job pod while the job
\* resource and the manager deployment are live.
C14_Witness ==
    /\ pc = "observed"
    /\ pass.err = "Exactly one job pod is expected, but found more"
    /\ pass.observedState.job # <<>>
    /\ pass.observedState.jmDeployment # <<>>
    /\ pass.observedState.jobPod = <<>>
=============================================================================
